---- MODULE Spec2Model ----
(***************************************************************************)
(* Pointcheval-Sanders signatures (package ps, src/ps.go).                 *)
(*                                                                         *)
(* The pairing suite is modelled by a prime-order setting in which every   *)
(* group element is written as its discrete logarithm: a point g^k of G1   *)
(* or G2 is the number k in 0..P-1, the identity is 0, point addition is   *)
(* addition mod P, scalar multiplication is multiplication mod P and the   *)
(* pairing e(g1^a, g2^b) = gT^(a*b) is multiplication mod P.  Scalars and  *)
(* points cross the API as fixed-width bit strings (MarshalBinary /        *)
(* UnmarshalBinary); decoding rejects strings that are not the encoding of *)
(* an element.  Messages are byte strings mapped to scalars by SetBytes    *)
(* (big-endian value reduced mod P).                                       *)
(*                                                                         *)
(* The state machine is a caller of the package: it generates a key pair,  *)
(* signs (Sign, BatchSign or AggreSign followed by AggregatePSSign links), *)
(* possibly flips one bit of the signature, and verifies.                  *)
(***************************************************************************)
EXTENDS Integers, Sequences, FiniteSets, TLC

(* ---------------------------------------------------------------------- *)
(* Bounds                                                                 *)
(* ---------------------------------------------------------------------- *)

\* largest number of randomness sources handed to NewKeyPair
MaxSlots == 3

(* ---------------------------------------------------------------------- *)
(* The pairing suite                                                      *)
(* ---------------------------------------------------------------------- *)

\* order of G1, G2, GT and of the scalar field (a prime)
P == 3

Points == 0 .. (P - 1)

\* Scalar().Pick: the library draws a scalar uniformly from 1..P-1
PickScalar == 1 .. (P - 1)

\* Point().Pick: an element of G1.  The identity is kept among the points
\* drawn so that signing with it is covered; the refutations below are stated
\* for signatures whose first component is not the identity.
PickPoint == Points

ScalarAdd(a, b) == (a + b) % P

ScalarMul(a, b) == (a * b) % P

\* Point().Mul(s, p); Mul(s, nil) multiplies the base point, whose logarithm is 1
PointMul(s, p) == (s * p) % P

Base == 1

PointAdd(p, q) == (p + q) % P

\* suite.Pair(p, q): an element of GT, by its logarithm
Pair(p, q) == (p * q) % P

(* ---------------------------------------------------------------------- *)
(* Binary encodings                                                       *)
(* ---------------------------------------------------------------------- *)

Nil == "nil"

ErrEncoding == "malformed encoding"

ErrInvalid == "ps: invalid signature"

ErrRandoms == "need minimum two random numbers"

Panic == "panic: index out of range"

\* Scalar.MarshalBinary: the value, big-endian, fixed width
MarshalScalar(s) == << s \div 2, s % 2 >>

\* Scalar.UnmarshalBinary: rejects a value that is not below the modulus
UnmarshalScalar(b) ==
    IF Len(b) = 2 /\ 2 * b[1] + b[2] < P
    THEN [err |-> Nil, v |-> 2 * b[1] + b[2]]
    ELSE [err |-> ErrEncoding, v |-> 0]

\* the redundancy of a point's encoding (its second coordinate)
Coord(k) == k \div 2

\* Point.MarshalBinary: fixed width, the identity is all zeros
MarshalPoint(k) == << k \div 2, k % 2, Coord(k) >>

\* Point.UnmarshalBinary: rejects a string that is not a point of the group
UnmarshalPoint(b) ==
    IF /\ Len(b) = 3
       /\ 2 * b[1] + b[2] < P
       /\ b[3] = Coord(2 * b[1] + b[2])
    THEN [err |-> Nil, v |-> 2 * b[1] + b[2]]
    ELSE [err |-> ErrEncoding, v |-> 0]

RECURSIVE BytesValue(_)
\* big.Int.SetBytes: the big-endian value of a byte string
BytesValue(msg) ==
    IF msg = << >> THEN 0
    ELSE 256 * BytesValue(SubSeq(msg, 1, Len(msg) - 1)) + msg[Len(msg)]

\* Scalar().SetBytes(msg): the value reduced modulo the group order
SetBytes(msg) == BytesValue(msg) % P

(* ---------------------------------------------------------------------- *)
(* The package's functions                                                *)
(* ---------------------------------------------------------------------- *)

\* NewKeyPair accepting a single randomness source
NewKeyPair_MinOne(rnd) ==
    IF Len(rnd) < 1
    THEN [PriKey |-> << >>, PubKey |-> << >>, err |-> ErrRandoms]
    ELSE [PriKey |-> [i \in 1 .. Len(rnd) |-> MarshalScalar(rnd[i])],
          PubKey |-> [i \in 1 .. Len(rnd) |-> MarshalPoint(PointMul(rnd[i], Base))],
          err |-> Nil]

\* NewKeyPair(suite, randoms): rnd[i] is the scalar that Pick draws from the
\* i-th randomness source.  Returns (PriKey, PubKey, err).
NewKeyPair(rnd) ==
    IF Len(rnd) < 2
    THEN [PriKey |-> << >>, PubKey |-> << >>, err |-> ErrRandoms]
    ELSE LET PriKey == [i \in 1 .. Len(rnd) |-> MarshalScalar(rnd[i])]
             Pkey(i) == UnmarshalScalar(PriKey[i])
             PubKey == [i \in 1 .. Len(PriKey) |->
                           MarshalPoint(PointMul(Pkey(i).v, Base))]
         IN  IF \E i \in 1 .. Len(PriKey) : Pkey(i).err # Nil
             THEN [PriKey |-> << >>, PubKey |-> << >>, err |-> ErrEncoding]
             ELSE [PriKey |-> PriKey, PubKey |-> PubKey, err |-> Nil]

\* Sign with the roles of priKey[0] and priKey[1] exchanged
Sign_SwappedKey(priKey, msg, h) ==
    IF Len(priKey) < 2
    THEN [S |-> << >>, err |-> Panic]
    ELSE LET y == ScalarMul(priKey[1], SetBytes(msg))
             x == ScalarAdd(priKey[2], y)
             hX == PointMul(x, h)
         IN  [S |-> << MarshalPoint(h), MarshalPoint(hX) >>, err |-> Nil]

\* Sign(suite, priKey, msg) with h the point drawn by Pick.  Go's priKey[0] and
\* priKey[1] are priKey[1] and priKey[2] here.
Sign(priKey, msg, h) ==
    IF Len(priKey) < 2
    THEN [S |-> << >>, err |-> Panic]
    ELSE LET y == ScalarMul(priKey[2], SetBytes(msg))
             x == ScalarAdd(priKey[1], y)
             hX == PointMul(x, h)
         IN  [S |-> << MarshalPoint(h), MarshalPoint(hX) >>, err |-> Nil]

RECURSIVE SumKeyMsgs_SlotOff(_, _, _)
\* the loop of BatchSign reading priKey[i] instead of priKey[i+1]
SumKeyMsgs_SlotOff(priKey, msgs, k) ==
    IF k = 0 THEN 0
    ELSE ScalarAdd(SumKeyMsgs_SlotOff(priKey, msgs, k - 1),
                   ScalarMul(priKey[k], SetBytes(msgs[k])))

RECURSIVE SumKeyMsgs(_, _, _)
\* the loop of BatchSign: y accumulates priKey[i+1] * msgScalar over msgs[0..k-1]
SumKeyMsgs(priKey, msgs, k) ==
    IF k = 0 THEN 0
    ELSE ScalarAdd(SumKeyMsgs(priKey, msgs, k - 1),
                   ScalarMul(priKey[k + 1], SetBytes(msgs[k])))

\* BatchSign(suite, priKey, msgs) with h the point drawn by Pick
BatchSign(priKey, msgs, h) ==
    IF Len(priKey) < Len(msgs) + 1
    THEN [S |-> << >>, err |-> Panic]
    ELSE LET y == SumKeyMsgs(priKey, msgs, Len(msgs))
             x == ScalarAdd(priKey[1], y)
             hX == PointMul(x, h)
         IN  [S |-> << MarshalPoint(h), MarshalPoint(hX) >>, err |-> Nil]

\* AggreSign(suite, priKey, msg) with t the scalar drawn by Pick
AggreSign(priKey, msg, t) ==
    IF Len(priKey) < 2
    THEN [S |-> << >>, err |-> Panic]
    ELSE LET sigma1 == PointMul(t, Base)
             y == ScalarMul(priKey[2], SetBytes(msg))
             x == ScalarAdd(priKey[1], y)
             v == ScalarMul(x, t)
             sigma2 == PointMul(v, Base)
         IN  [S |-> << MarshalPoint(sigma1), MarshalPoint(sigma2) >>, err |-> Nil]

\* the tail of verification going on to the comparison when S[1] does not decode
CheckPairing_S2ErrIgnored(X, S) ==
    IF Len(S) < 1 THEN Panic
    ELSE LET s1 == UnmarshalPoint(S[1])
         IN  IF s1.err # Nil THEN s1.err
             ELSE IF Len(S) < 2 THEN Panic
             ELSE LET s2 == UnmarshalPoint(S[2])
                  IN  IF Pair(s1.v, X) # Pair(s2.v, Base) THEN ErrInvalid
                      ELSE Nil

\* the tail shared by Verify and PSBatchVerify: decode S[0], pair it with X,
\* decode S[1], pair it with the base of G2, compare
CheckPairing(X, S) ==
    IF Len(S) < 1 THEN Panic
    ELSE LET s1 == UnmarshalPoint(S[1])
         IN  IF s1.err # Nil THEN s1.err
             ELSE IF Len(S) < 2 THEN Panic
             ELSE LET s2 == UnmarshalPoint(S[2])
                  IN  IF s2.err # Nil THEN s2.err
                      ELSE IF Pair(s1.v, X) # Pair(s2.v, Base) THEN ErrInvalid
                      ELSE Nil

\* Verify leaving the message out of Y
Verify_NoMessage(pubKey, msg, S) ==
    IF Len(pubKey) < 2 THEN Panic
    ELSE LET Y == pubKey[2]
             X == PointAdd(Y, pubKey[1])
         IN  CheckPairing(X, S)

\* Verify(suite, pubKey, msg, S): the error it returns (Nil for success)
Verify(pubKey, msg, S) ==
    IF Len(pubKey) < 2 THEN Panic
    ELSE LET Y == PointMul(SetBytes(msg), pubKey[2])
             X == PointAdd(Y, pubKey[1])
         IN  CheckPairing(X, S)

RECURSIVE SumPubMsgs_FixedSlot(_, _, _)
\* the loop of PSBatchVerify using pubKey[1] for every message
SumPubMsgs_FixedSlot(pubKey, msgs, k) ==
    IF k = 0 THEN 0
    ELSE PointAdd(SumPubMsgs_FixedSlot(pubKey, msgs, k - 1),
                  PointMul(SetBytes(msgs[k]), pubKey[2]))

RECURSIVE SumPubMsgs(_, _, _)
\* the loop of PSBatchVerify: Y accumulates pubKey[i+1]^msgScalar
SumPubMsgs(pubKey, msgs, k) ==
    IF k = 0 THEN 0
    ELSE PointAdd(SumPubMsgs(pubKey, msgs, k - 1),
                  PointMul(SetBytes(msgs[k]), pubKey[k + 1]))

\* PSBatchVerify leaving pubKey[0] out of X
PSBatchVerify_NoX(pubKey, msgs, S) ==
    IF Len(pubKey) < Len(msgs) + 1 THEN Panic
    ELSE CheckPairing(SumPubMsgs(pubKey, msgs, Len(msgs)), S)

\* PSBatchVerify(suite, pubKey, msgs, S): the error it returns
PSBatchVerify(pubKey, msgs, S) ==
    IF Len(pubKey) < Len(msgs) + 1 THEN Panic
    ELSE LET Y == SumPubMsgs(pubKey, msgs, Len(msgs))
             X == PointAdd(Y, pubKey[1])
         IN  CheckPairing(X, S)

\* AggregatePSSign not raising the second component to t
AggregatePSSign_Sigma2NotBlinded(priKey, S, msg, t) ==
    IF Len(S) < 1 THEN [S |-> << >>, err |-> Panic]
    ELSE LET s1 == UnmarshalPoint(S[1])
         IN  IF s1.err # Nil THEN [S |-> << >>, err |-> s1.err]
             ELSE IF Len(S) < 2 THEN [S |-> << >>, err |-> Panic]
             ELSE LET s2 == UnmarshalPoint(S[2])
                      y == ScalarMul(priKey, SetBytes(msg))
                      sigma_2 == PointAdd(PointMul(y, s1.v), s2.v)
                  IN  IF s2.err # Nil THEN [S |-> << >>, err |-> s2.err]
                      ELSE [S |-> << MarshalPoint(PointMul(t, s1.v)),
                                     MarshalPoint(sigma_2) >>,
                            err |-> Nil]

\* AggregatePSSign leaving the first component as it was
AggregatePSSign_Sigma1Kept(priKey, S, msg, t) ==
    IF Len(S) < 1 THEN [S |-> << >>, err |-> Panic]
    ELSE LET s1 == UnmarshalPoint(S[1])
         IN  IF s1.err # Nil THEN [S |-> << >>, err |-> s1.err]
             ELSE IF Len(S) < 2 THEN [S |-> << >>, err |-> Panic]
             ELSE LET s2 == UnmarshalPoint(S[2])
                      y == ScalarMul(priKey, SetBytes(msg))
                      sigma_2 == PointAdd(PointMul(y, s1.v), s2.v)
                  IN  IF s2.err # Nil THEN [S |-> << >>, err |-> s2.err]
                      ELSE [S |-> << MarshalPoint(s1.v),
                                     MarshalPoint(PointMul(t, sigma_2)) >>,
                            err |-> Nil]

\* AggregatePSSign(suite, priKey, S, msg) with t the scalar drawn by Pick;
\* priKey is one scalar
AggregatePSSign(priKey, S, msg, t) ==
    IF Len(S) < 1 THEN [S |-> << >>, err |-> Panic]
    ELSE LET s1 == UnmarshalPoint(S[1])
         IN  IF s1.err # Nil THEN [S |-> << >>, err |-> s1.err]
             ELSE IF Len(S) < 2 THEN [S |-> << >>, err |-> Panic]
             ELSE LET s2 == UnmarshalPoint(S[2])
                      y == ScalarMul(priKey, SetBytes(msg))
                      sigma_1 == PointMul(y, s1.v)
                      sigma_2 == PointAdd(sigma_1, s2.v)
                  IN  IF s2.err # Nil THEN [S |-> << >>, err |-> s2.err]
                      ELSE [S |-> << MarshalPoint(PointMul(t, s1.v)),
                                     MarshalPoint(PointMul(t, sigma_2)) >>,
                            err |-> Nil]

(* ---------------------------------------------------------------------- *)
(* The caller                                                             *)
(* ---------------------------------------------------------------------- *)

VARIABLES
    phase,      \* "start", "keyed", "signed", "verified"
    randoms,    \* the scalars drawn from the randomness sources given to NewKeyPair
    PriKey,     \* NewKeyPair's first result ([][]byte)
    PubKey,     \* NewKeyPair's second result ([][]byte)
    kerr,       \* NewKeyPair's error
    kind,       \* the signing function that produced S
    sn,         \* how many private-key slots the signer was given
    msgs,       \* the messages signed, in order
    S,          \* the signature ([][]byte)
    alt,        \* the signature of the same two extensions made in the other order
    serr,       \* the error of the last signing call
    tamp,       \* << >>, or <<c, b>>: bit b of S[c] was flipped
    vop,        \* the verification function called
    vn,         \* how many public-key slots the verifier was given
    vmsgs,      \* the messages given to the verifier
    vslen,      \* how many components of S the verifier was given
    vres,       \* the verifier's error on S
    valt        \* the verifier's error on alt

vars == << phase, randoms, PriKey, PubKey, kerr, kind, sn, msgs, S, alt, serr,
           tamp, vop, vn, vmsgs, vslen, vres, valt >>

keyVars == << randoms, PriKey, PubKey, kerr >>

signVars == << kind, sn, msgs, S, alt, serr, tamp >>

verifyVars == << vop, vn, vmsgs, vslen, vres, valt >>

None == "none"

\* the byte strings used as messages: <<3>> is the group order itself and
\* <<4>> is <<1>> plus the group order
Msgs == { <<1>>, <<2>>, <<3>>, <<4>> }

Vectors(n) == UNION { [1 .. k -> Msgs] : k \in 0 .. n }

KeyRandoms == UNION { [1 .. r -> PickScalar] : r \in 0 .. MaxSlots }

\* the caller's conversion of the first n key slots to scalars / points
DecodePri(n) == [i \in 1 .. n |-> UnmarshalScalar(PriKey[i]).v]

DecodePub(n) == [i \in 1 .. n |-> UnmarshalPoint(PubKey[i]).v]

Prefix(s, n) == SubSeq(s, 1, n)

Perms(n) == { p \in [1 .. n -> 1 .. n] : \A i, j \in 1 .. n : p[i] = p[j] => i = j }

Permuted(s, p) == [i \in 1 .. Len(s) |-> s[p[i]]]

\* the message vectors a verifier is given for a signature on ms: ms itself,
\* ms reordered, ms with one message replaced, ms cut short
Variants(ms) ==
    { Permuted(ms, p) : p \in Perms(Len(ms)) }
      \cup { [ms EXCEPT ![i] = m] : i \in 1 .. Len(ms), m \in Msgs }
      \cup { Prefix(ms, k) : k \in 0 .. Len(ms) }

FlipBit(b, i) == [b EXCEPT ![i] = 1 - b[i]]

Init ==
    /\ phase = "start"
    /\ randoms = << >> /\ PriKey = << >> /\ PubKey = << >> /\ kerr = None
    /\ kind = None /\ sn = 0 /\ msgs = << >> /\ S = << >> /\ alt = << >>
    /\ serr = None /\ tamp = << >>
    /\ vop = None /\ vn = 0 /\ vmsgs = << >> /\ vslen = 0
    /\ vres = None /\ valt = None

CallNewKeyPair ==
    /\ phase = "start"
    /\ \E rnd \in KeyRandoms :
          LET r == NewKeyPair(rnd)
          IN  /\ randoms' = rnd
              /\ PriKey' = r.PriKey
              /\ PubKey' = r.PubKey
              /\ kerr' = r.err
    /\ phase' = "keyed"
    /\ UNCHANGED << signVars, verifyVars >>

Signed(k, n, ms, r) ==
    /\ kind' = k /\ sn' = n /\ msgs' = ms
    /\ S' = r.S /\ serr' = r.err
    /\ alt' = << >> /\ tamp' = << >>
    /\ phase' = "signed"
    /\ UNCHANGED << keyVars, verifyVars >>

CallSign ==
    /\ phase = "keyed"
    /\ \E n \in 0 .. Len(PriKey), m \in Msgs, h \in PickPoint :
          Signed("Sign", n, <<m>>, Sign(DecodePri(n), m, h))

CallBatchSign ==
    /\ phase = "keyed"
    /\ \E n \in 0 .. Len(PriKey), ms \in Vectors(MaxSlots - 1), h \in PickPoint :
          Signed("BatchSign", n, ms, BatchSign(DecodePri(n), ms, h))

CallAggreSign ==
    /\ phase = "keyed"
    /\ \E n \in 0 .. Len(PriKey), m \in Msgs, t \in PickScalar :
          Signed("AggreSign", n, <<m>>, AggreSign(DecodePri(n), m, t))

\* the next signer of the chain extends it with the next slot's secret
CallAggregatePSSign ==
    /\ phase = "signed" /\ kind = "AggreSign" /\ serr = Nil
    /\ Len(msgs) + 2 <= Len(PriKey)
    /\ \E m \in Msgs, t \in PickScalar, slen \in 0 .. Len(S) :
          LET y == DecodePri(Len(PriKey))[Len(msgs) + 2]
              r == AggregatePSSign(y, Prefix(S, slen), m, t)
          IN  /\ S' = r.S /\ serr' = r.err
              /\ msgs' = Append(msgs, m)
    /\ UNCHANGED << phase, kind, sn, alt, tamp, keyVars, verifyVars >>

\* two signers extend the chain, once in each order
CallAggregateBothOrders ==
    /\ phase = "signed" /\ kind = "AggreSign" /\ serr = Nil /\ tamp = << >>
    /\ Len(msgs) = 1
    /\ \E i, j \in 2 .. Len(PriKey), mi, mj \in Msgs, t1, t2, t3, t4 \in PickScalar :
          LET yi == DecodePri(Len(PriKey))[i]
              yj == DecodePri(Len(PriKey))[j]
              A1 == AggregatePSSign(yi, S, mi, t1)
              A2 == AggregatePSSign(yj, A1.S, mj, t2)
              B1 == AggregatePSSign(yj, S, mj, t3)
              B2 == AggregatePSSign(yi, B1.S, mi, t4)
          IN  /\ S' = A2.S /\ serr' = A2.err
              /\ alt' = B2.S
              /\ msgs' = msgs \o <<mi, mj>>
    /\ kind' = "BothOrders"
    /\ UNCHANGED << phase, sn, tamp, keyVars, verifyVars >>

\* the holder of the signature flips one bit of one component
Tamper ==
    /\ phase = "signed" /\ serr = Nil /\ tamp = << >> /\ kind # "BothOrders"
    /\ \E c \in 1 .. Len(S) : \E b \in 1 .. Len(S[c]) :
          /\ S' = [S EXCEPT ![c] = FlipBit(S[c], b)]
          /\ tamp' = <<c, b>>
    /\ UNCHANGED << phase, kind, sn, msgs, alt, serr, keyVars, verifyVars >>

\* a verifier is given the whole key and signature with some variant of the
\* messages, or the signed messages with a shorter key or signature; after a
\* bit flip it is given the whole key, the signed messages and the signature
VerifyCalls(variants) ==
    { c \in (0 .. Len(PubKey)) \X variants \X (0 .. Len(S)) :
         \/ c[1] = Len(PubKey) /\ c[3] = Len(S)
         \/ c[2] = msgs /\ tamp = << >> }

CallVerify ==
    /\ phase = "signed" /\ serr = Nil
    /\ \E c \in VerifyCalls(IF tamp = << >> THEN { <<m>> : m \in Msgs } ELSE {msgs}) :
          /\ Len(c[2]) = 1
          /\ vn' = c[1] /\ vmsgs' = c[2] /\ vslen' = c[3]
          /\ vres' = Verify(DecodePub(c[1]), c[2][1], Prefix(S, c[3]))
    /\ vop' = "Verify" /\ valt' = None
    /\ phase' = "verified"
    /\ UNCHANGED << keyVars, signVars >>

CallPSBatchVerify ==
    /\ phase = "signed" /\ serr = Nil
    /\ \E c \in VerifyCalls(IF tamp = << >> THEN Variants(msgs) ELSE {msgs}) :
          /\ vn' = c[1] /\ vmsgs' = c[2] /\ vslen' = c[3]
          /\ vres' = PSBatchVerify(DecodePub(c[1]), c[2], Prefix(S, c[3]))
          /\ valt' = IF kind = "BothOrders"
                     THEN PSBatchVerify(DecodePub(c[1]), c[2], Prefix(alt, c[3]))
                     ELSE None
    /\ vop' = "PSBatchVerify"
    /\ phase' = "verified"
    /\ UNCHANGED << keyVars, signVars >>

Next ==
    \/ CallNewKeyPair
    \/ CallSign
    \/ CallBatchSign
    \/ CallAggreSign
    \/ CallAggregatePSSign
    \/ CallAggregateBothOrders
    \/ Tamper
    \/ CallVerify
    \/ CallPSBatchVerify

Spec == Init /\ [][Next]_vars

(* ---------------------------------------------------------------------- *)
(* Properties                                                             *)
(* ---------------------------------------------------------------------- *)

Verified == phase = "verified"

\* the signing call returned a signature and nobody changed it
Intact == serr = Nil /\ tamp = << >>

\* the verifier was given the whole public key and both components
WholeCall == vn = Len(PubKey) /\ vslen = 2

sk == DecodePri(Len(PriKey))

IdentityBytes == MarshalPoint(0)

RECURSIVE Dot(_, _, _)
\* sum over j >= i of keys[j+1] * scalar(ms[j]), mod P (keys as logarithms)
Dot(keys, ms, i) ==
    IF i > Len(ms) THEN 0
    ELSE (keys[i + 1] * SetBytes(ms[i]) + Dot(keys, ms, i + 1)) % P

\* the exponent x + sum y_i * m_i carried by a signature on ms
Exponent(ms) == (sk[1] + Dot(sk, ms, 1)) % P

\* C1: a signature made by Sign with a key pair of NewKeyPair, for any random
\* point h (the identity included), is accepted by Verify with the public key
\* and the signed message.
RoundTripSign ==
    (Verified /\ kind = "Sign" /\ Intact /\ vop = "Verify"
       /\ WholeCall /\ vmsgs = msgs)
    => vres = Nil

WitnessRoundTripSign ==
    /\ Verified /\ kind = "Sign" /\ Intact /\ vop = "Verify"
    /\ WholeCall /\ vmsgs = msgs /\ kerr = Nil
    /\ S[1] # IdentityBytes /\ S[2] # IdentityBytes
    /\ vres = Nil

\* C2: a signature made by BatchSign on k >= 1 messages, the signer being given
\* at least the first k+1 private-key slots, is accepted by PSBatchVerify with
\* the whole public key and the same messages.
RoundTripBatch ==
    (Verified /\ kind = "BatchSign" /\ Intact /\ vop = "PSBatchVerify"
       /\ WholeCall /\ vmsgs = msgs /\ Len(msgs) >= 1)
    => vres = Nil

WitnessRoundTripBatch ==
    /\ Verified /\ kind = "BatchSign" /\ Intact /\ vop = "PSBatchVerify"
    /\ WholeCall /\ vmsgs = msgs /\ Len(msgs) >= 1
    /\ sn = Len(msgs) + 1 /\ sn < Len(PubKey)
    /\ S[2] # IdentityBytes
    /\ vres = Nil

\* C3: the signature of a chain AggreSign, AggregatePSSign, ... made in slot
\* order is, after every link, accepted by PSBatchVerify with the whole public
\* key and the messages signed so far.
ChainValid ==
    (Verified /\ kind = "AggreSign" /\ Intact /\ vop = "PSBatchVerify"
       /\ WholeCall /\ vmsgs = msgs)
    => vres = Nil

WitnessChainValid ==
    /\ Verified /\ kind = "AggreSign" /\ Intact /\ vop = "PSBatchVerify"
    /\ WholeCall /\ vmsgs = msgs /\ Len(msgs) >= 2
    /\ S[2] # IdentityBytes
    /\ vres = Nil

\* the verifier is given the signed messages after a bit of the signature of
\* Sign or BatchSign was flipped
TamperedCall ==
    /\ Verified /\ kind \in {"Sign", "BatchSign"} /\ serr = Nil /\ tamp # << >>
    /\ WholeCall /\ vmsgs = msgs

\* C4 as claimed: after one bit of sigma1 or of sigma2 is flipped, verification
\* on the same key and messages fails with the invalid-signature error.
TamperAlwaysInvalid == TamperedCall => vres = ErrInvalid

\* C4 as amended: after the flip, verification fails with the decoding error
\* when the changed component no longer decodes and with the
\* invalid-signature error when it does, except that it succeeds when the
\* changed component is sigma1, it still decodes, and x + sum y_i * m_i is 0.
TamperOutcome ==
    TamperedCall =>
        vres = IF UnmarshalPoint(S[tamp[1]]).err # Nil THEN ErrEncoding
               ELSE IF tamp[1] = 1 /\ Exponent(msgs) = 0 THEN Nil
               ELSE ErrInvalid

WitnessTamperOutcome ==
    /\ TamperedCall /\ kerr = Nil
    /\ UnmarshalPoint(S[tamp[1]]).err = Nil
    /\ vres = ErrInvalid

\* the left-hand point X * prod Y_i^(m_i) of the verification equation
ExpectedX(pk, ms) == (pk[1] + Dot(pk, ms, 1)) % P

\* the verifier was given enough public-key slots and two components
ProperCall ==
    /\ Verified /\ vslen = 2
    /\ vn >= Len(vmsgs) + 1
    /\ vop = "Verify" => vn >= 2

\* C5: Verify and PSBatchVerify succeed iff both components decode and
\* e(sigma1, X * prod Y_i^(m_i)) = e(sigma2, g2); they return the
\* invalid-signature error iff both decode and the pairings differ, and the
\* decoding error iff a component does not decode.
VerifyOutcome ==
    ProperCall =>
        LET d1 == UnmarshalPoint(S[1])
            d2 == UnmarshalPoint(S[2])
            decoded == d1.err = Nil /\ d2.err = Nil
            equal == Pair(d1.v, ExpectedX(DecodePub(vn), vmsgs)) = Pair(d2.v, Base)
        IN  /\ vres = Nil <=> (decoded /\ equal)
            /\ vres = ErrInvalid <=> (decoded /\ ~equal)
            /\ vres = ErrEncoding <=> ~decoded

WitnessVerifyOutcome ==
    /\ ProperCall /\ vop = "PSBatchVerify" /\ Len(vmsgs) >= 2
    /\ UnmarshalPoint(S[1]).err = Nil /\ UnmarshalPoint(S[2]).err = Nil
    /\ vres = ErrInvalid

\* C6: NewKeyPair fails, returning no keys, when given fewer than 2 randomness
\* sources; otherwise it returns r private and r public keys, the i-th private
\* key being the scalar drawn from the i-th source and the i-th public key
\* being the base of G2 to that scalar.
KeyGenContract ==
    phase # "start" =>
        IF Len(randoms) < 2
        THEN kerr = ErrRandoms /\ PriKey = << >> /\ PubKey = << >>
        ELSE /\ kerr = Nil
             /\ Len(PriKey) = Len(randoms) /\ Len(PubKey) = Len(randoms)
             /\ \A i \in 1 .. Len(randoms) :
                   /\ UnmarshalScalar(PriKey[i]) = [err |-> Nil, v |-> randoms[i]]
                   /\ UnmarshalPoint(PubKey[i]) =
                         [err |-> Nil, v |-> (randoms[i] * Base) % P]

WitnessKeyGenContract ==
    /\ phase = "keyed" /\ kerr = Nil /\ Len(PriKey) = 2
    /\ randoms[1] # randoms[2]

\* the verifier is given a reordering of the messages signed by BatchSign
PermutedCall ==
    /\ Verified /\ kind = "BatchSign" /\ Intact /\ vop = "PSBatchVerify"
    /\ WholeCall
    /\ \E p \in Perms(Len(msgs)) :
          /\ \E i \in 1 .. Len(msgs) : p[i] # i
          /\ vmsgs = Permuted(msgs, p)

\* C7 as claimed: PSBatchVerify fails on every reordering of the messages
\* (stated for the signatures whose sigma1 is not the identity).
PermutedAlwaysFails == (PermutedCall /\ S[1] # IdentityBytes) => vres # Nil

\* C7 as amended: PSBatchVerify on a reordering fails, with the
\* invalid-signature error, exactly when sigma1 is not the identity and the
\* reordering changes sum y_i * m_i modulo the group order; otherwise it
\* succeeds.
PermutedOutcome ==
    PermutedCall =>
        vres = IF S[1] # IdentityBytes /\ Dot(sk, vmsgs, 1) # Dot(sk, msgs, 1)
               THEN ErrInvalid
               ELSE Nil

WitnessPermutedOutcome ==
    /\ PermutedCall /\ vmsgs # msgs
    /\ vres = ErrInvalid

\* the verifier is given a byte string other than the one signed by Sign
WrongMessageCall ==
    /\ Verified /\ kind = "Sign" /\ Intact /\ vop = "Verify"
    /\ WholeCall /\ vmsgs # msgs

\* C8 as claimed: Verify fails with the invalid-signature error for every
\* message byte string other than the signed one (stated for the signatures
\* whose sigma1 is not the identity).
WrongMessageAlwaysInvalid ==
    (WrongMessageCall /\ S[1] # IdentityBytes) => vres = ErrInvalid

\* C8 as amended: Verify on another byte string fails with the
\* invalid-signature error exactly when the two byte strings map to different
\* scalars, sigma1 is not the identity and y_1 is not 0; otherwise it succeeds.
WrongMessageOutcome ==
    WrongMessageCall =>
        vres = IF /\ SetBytes(vmsgs[1]) # SetBytes(msgs[1])
                  /\ S[1] # IdentityBytes
                  /\ sk[2] # 0
               THEN ErrInvalid
               ELSE Nil

WitnessWrongMessageOutcome ==
    /\ WrongMessageCall
    /\ SetBytes(vmsgs[1]) # SetBytes(msgs[1])
    /\ vres = ErrInvalid

\* C9 as claimed: every call returns its result or an error value; none
\* aborts, whatever the lengths of the key, the message vector and the
\* signature.
NoAbort == kerr # Panic /\ serr # Panic /\ vres # Panic /\ valt # Panic

\* C10: the signatures of two extensions made in one order and in the other
\* are accepted or rejected alike by PSBatchVerify, whatever the random
\* scalars of the links, the public key and the messages.
OrderIndependent ==
    kind = "BothOrders" =>
        /\ serr = Nil /\ Len(alt) = 2
        /\ (Verified /\ vop = "PSBatchVerify") => vres = valt
        /\ phase = "signed" =>
              \A pk \in [1 .. 2 -> Points], m \in Msgs :
                 PSBatchVerify(pk, <<m>>, S) = PSBatchVerify(pk, <<m>>, alt)

WitnessOrderIndependent ==
    /\ kind = "BothOrders" /\ Verified /\ vop = "PSBatchVerify" /\ WholeCall
    /\ S # alt /\ S[2] # IdentityBytes
    /\ vres = Nil

====
